---------------------------- MODULE Spec2Model ----------------------------
(***************************************************************************)
(* A model of lib/ParticleSimulation/ParticleSimulation.cpp, the PIC/FLIP  *)
(* fluid simulation of RP2040-fluidsim.                                    *)
(*                                                                         *)
(* Numbers.  The program computes in float.  The model computes in fixed   *)
(* point: a position 1.0 is SCALE units, a velocity is in units per        *)
(* second, an acceleration in units per second squared, dt in              *)
(* milliseconds, a bilinear weight 1.0 is SCALE.  A float product or       *)
(* quotient is the integer one, rounded toward zero (TruncDiv) where the   *)
(* program's value has a sign and floored where the program floors.        *)
(*                                                                         *)
(* Configuration.  ParticleSimulation.hpp is not part of the sources; the  *)
(* configuration constants it sets (GS, PARTICLE_RADIUS, PC_MAX, ...) are  *)
(* given small values here that respect what spec.md says of them.         *)
(***************************************************************************)
EXTENDS Integers, Sequences, FiniteSets, TLC

(* ------------------------------------------------------------------ *)
(* Fixed point                                                         *)
(* ------------------------------------------------------------------ *)
SCALE == 1000
HALF == SCALE \div 2
\* dt is in milliseconds: MS of them make the second the velocities are per
MS == 1000

\* C's float-to-int conversion and the sign-symmetric rounding of a quotient
TruncDiv(a, b) == IF a >= 0 THEN a \div b ELSE -((-a) \div b)

Min(a, b) == IF a < b THEN a ELSE b
Max(a, b) == IF a > b THEN a ELSE b

RECURSIVE SqrtIter(_, _)
SqrtIter(n, x) ==
  LET y == (x + n \div x) \div 2
  IN  IF y >= x THEN x ELSE SqrtIter(n, y)

\* sqrtf / hypotf: the integer square root, by Newton's iteration from a power of
\* two above the root
ISqrt(n) ==
  IF n < 2 THEN n
  ELSE IF n < 256 THEN SqrtIter(n, 16)
  ELSE IF n < 65536 THEN SqrtIter(n, 256)
  ELSE IF n < 16777216 THEN SqrtIter(n, 4096)
  ELSE SqrtIter(n, 46341)

(* ------------------------------------------------------------------ *)
(* Configuration (ParticleSimulation.hpp)                              *)
(* ------------------------------------------------------------------ *)
GS == 4
GC == GS * GS
CELL == SCALE \div GS
PARTICLE_RADIUS == 100
PC_MAX == 4
\* the hash cell width 1 / P_INV_SP
P_SPACING == 2 * PARTICLE_RADIUS
PNX == 5
PNY == 5
PNC == PNX * PNY
SEPARATE_ITERS_P == 2
SOLVER_ITERS_P == 2
\* per mille
FLIP_RATIO == 900
REST_N == 500
FRIC_T == 100
FLUID_DENSITY == 1
GRAVITY_MODIFIER == 1
FLUID_PARTICLE_THRESHOLD == 2
FLUID_RIM_PARTICLE_THRESHOLD == 1
FOAM_SPEED_THRESHOLD == 2000

FLUID_CELL == "FLUID_CELL"
SOLID_CELL == "SOLID_CELL"
FLUID_EMPTY == "EMPTY"
FLUID_RIM_LIGHT == "RIM_LIGHT"
FLUID_RIM_TRANSPARENT == "RIM_TRANSPARENT"
FLUID_LIQUID == "LIQUID"
FLUID_FOAM == "FOAM"

Pids == 0 .. (PC_MAX - 1)
Cells == 0 .. (GC - 1)

idx(x, y) == x * GS + y

clampF(v, lo, hi) == IF v < lo THEN lo ELSE IF v > hi THEN hi ELSE v

(* ------------------------------------------------------------------ *)
(* State                                                               *)
(* ------------------------------------------------------------------ *)
VARIABLES
  pc,             \* the phase of simulate that runs next
  frames,         \* calls of simulate completed
  dt,             \* simulate's argument, in milliseconds
  m_imu,          \* whether a sensor is attached
  sensor,         \* the last answer of readAccelerometer: [ok, ax, ay]
  m_ax, m_ay,
  m_particles,
  m_cellType,
  m_numPartCell, m_firstPart, m_cellPartIds,
  m_u, m_v, m_prevU, m_prevV, m_du, m_dv, m_pressure,
  m_currFluid, m_prevFluid, m_changedIdx, m_changedCnt,
  cnt, acc,       \* updateFluidCells' static arrays
  convTmp,
  \* history of the last call of each phase, read by the properties only
  hashLog,        \* pushParticlesApart: each particle's hash cell, the indices of
                  \* m_cellPartIds written and read, the corrections << it, i, j, d2 >>
  sampleLog,      \* transferVelocities: the grid sample coordinates used
  preSolve,       \* the grid as solveIncompressibility found it
  baseFluid,      \* updateFluidCells: the classification before the convolution
  calls           \* updateFluidCells: calls since the particles last changed

vars == << pc, frames, dt, m_imu, sensor, m_ax, m_ay, m_particles, m_cellType,
           m_numPartCell, m_firstPart, m_cellPartIds,
           m_u, m_v, m_prevU, m_prevV, m_du, m_dv, m_pressure,
           m_currFluid, m_prevFluid, m_changedIdx, m_changedCnt, cnt, acc, convTmp,
           hashLog, sampleLog, preSolve, baseFluid, calls >>

gridVars == << m_u, m_v, m_prevU, m_prevV, m_du, m_dv, m_pressure >>
hashVars == << m_numPartCell, m_firstPart, m_cellPartIds, hashLog >>
fluidVars == << m_currFluid, m_prevFluid, m_changedIdx, m_changedCnt, cnt, acc, convTmp,
               baseFluid, calls >>

(* ------------------------------------------------------------------ *)
(* begin: seedParticles, initGrid                                      *)
(* ------------------------------------------------------------------ *)
\* initGrid: a cell is FLUID when its centre lies in the circle of radius 0.5 - CELL
CellTypeOf(i) ==
  LET gx == i \div GS
      gy == i % GS
      \* twice the centre's offset from (0.5, 0.5), to stay integral
      cx2 == (2 * gx + 1) * CELL - SCALE
      cy2 == (2 * gy + 1) * CELL - SCALE
      rad2 == 2 * (HALF - CELL)
  IN  IF cx2 * cx2 + cy2 * cy2 <= rad2 * rad2 THEN FLUID_CELL ELSE SOLID_CELL

initGrid == [i \in Cells |-> CellTypeOf(i)]

Zeros == [i \in Cells |-> 0]

Particle(x, y, vx, vy) == [x |-> x, y |-> y, vx |-> vx, vy |-> vy]


(* ------------------------------------------------------------------ *)
(* Bounds of the model                                                 *)
(* ------------------------------------------------------------------ *)
\* calls of simulate in a run
MaxFrames == 2

\* simulate's dt (ms) and the sensor's answers (milli-g) in the runs of Spec
DtSet == {100}
Readings ==
  {[ok |-> FALSE, ax |-> 0, ay |-> 0],
   [ok |-> TRUE, ax |-> 1000, ay |-> 500]}

(* ------------------------------------------------------------------ *)
(* updateIMU                                                           *)
(* ------------------------------------------------------------------ *)
\* a faulty updateIMU: a failed read clears the vector
ImuAccelClearing(attached, rd, ax0, ay0) ==
  IF attached /\ rd.ok
    THEN << rd.ay * 10 * GRAVITY_MODIFIER, -rd.ax * 10 * GRAVITY_MODIFIER >>
    ELSE << 0, 0 >>

\* (m_ax, m_ay) after updateIMU, from the sensor's answer rd and the vector before
ImuAccel(attached, rd, ax0, ay0) ==
  IF attached /\ rd.ok
    THEN << rd.ay * 10 * GRAVITY_MODIFIER, -rd.ax * 10 * GRAVITY_MODIFIER >>
    ELSE << ax0, ay0 >>

\* simulate(dt) is entered and runs its first phase
UpdateIMU ==
  /\ pc = "imu"
  /\ frames < MaxFrames
  /\ \E d \in DtSet, rd \in Readings :
       LET a == ImuAccel(m_imu, rd, m_ax, m_ay)
       IN  /\ dt' = d
           /\ sensor' = IF m_imu THEN rd ELSE sensor
           /\ m_ax' = a[1]
           /\ m_ay' = a[2]
  /\ pc' = "integ"
  /\ UNCHANGED << frames, m_imu, m_particles, m_cellType, gridVars, hashVars,
                  fluidVars, sampleLog, preSolve >>

(* ------------------------------------------------------------------ *)
(* integrateParticles                                                  *)
(* ------------------------------------------------------------------ *)
\* the container: centre (CX, CY), radius R
CX == HALF
CY == HALF
R == HALF - CELL - PARTICLE_RADIUS
\* the scale of a unit vector's components
NS == SCALE

\* lines 138-165: the collision with the circular container
Collide(p) ==
  LET dx == p.x - CX
      dy == p.y - CY
      d2 == dx * dx + dy * dy
  IN  IF d2 > R * R
        THEN LET d == ISqrt(d2)
                 nx == TruncDiv(dx * NS, d)
                 ny == TruncDiv(dy * NS, d)
                 s == R - d
                 vn == TruncDiv(p.vx * nx + p.vy * ny, NS)
                 vx_n == TruncDiv(vn * nx, NS)
                 vy_n == TruncDiv(vn * ny, NS)
                 vx_t == p.vx - vx_n
                 vy_t == p.vy - vy_n
             IN  [x |-> p.x + TruncDiv(nx * s, NS),
                  y |-> p.y + TruncDiv(ny * s, NS),
                  vx |-> TruncDiv(-REST_N * vx_n, SCALE)
                           + TruncDiv((SCALE - FRIC_T) * vx_t, SCALE),
                  vy |-> TruncDiv(-REST_N * vy_n, SCALE)
                           + TruncDiv((SCALE - FRIC_T) * vy_t, SCALE)]
        ELSE p

\* a faulty step: the collision with the circle is left out
IntegrateOneBoxOnly(p, ax, ay, d) ==
  LET vx == p.vx + TruncDiv(ax * d, MS)
      vy == p.vy + TruncDiv(ay * d, MS)
  IN  [x |-> clampF(p.x + TruncDiv(vx * d, MS), PARTICLE_RADIUS, SCALE - PARTICLE_RADIUS),
       y |-> clampF(p.y + TruncDiv(vy * d, MS), PARTICLE_RADIUS, SCALE - PARTICLE_RADIUS),
       vx |-> vx, vy |-> vy]

\* lines 127-165: one particle's step
IntegrateOne(p, ax, ay, d) ==
  LET vx == p.vx + TruncDiv(ax * d, MS)
      vy == p.vy + TruncDiv(ay * d, MS)
      x == clampF(p.x + TruncDiv(vx * d, MS), PARTICLE_RADIUS, SCALE - PARTICLE_RADIUS)
      y == clampF(p.y + TruncDiv(vy * d, MS), PARTICLE_RADIUS, SCALE - PARTICLE_RADIUS)
  IN  Collide([x |-> x, y |-> y, vx |-> vx, vy |-> vy])

IntegrateParticles ==
  /\ pc = "integ"
  /\ m_particles' = [i \in Pids |-> IntegrateOne(m_particles[i], m_ax, m_ay, dt)]
  /\ pc' = "push"
  /\ calls' = 0
  /\ UNCHANGED << frames, dt, m_imu, sensor, m_ax, m_ay, m_cellType, gridVars, hashVars,
                  m_currFluid, m_prevFluid, m_changedIdx, m_changedCnt, cnt, acc,
                  convTmp, baseFluid, sampleLog, preSolve >>

(* ------------------------------------------------------------------ *)
(* pushParticlesApart                                                  *)
(* ------------------------------------------------------------------ *)
HashCells == 0 .. (PNC - 1)

\* m_cellPartIds has PC_MAX entries, 0 .. PC_MAX-1.  The bucket fill and the scan
\* also reach the PC_MAX ints that lie before it in the object (see BucketFill):
\* the model keeps those slots too, under their negative indices.
IdsDom == (-PC_MAX) .. (PC_MAX - 1)

\* What a read of a slot before the array returns: the value the fill stored
\* there (KeepStored), or a particle index that other code left there.
KeepStored == -1
OobValues == {KeepStored, PC_MAX - 1}

\* lines 175-176: int xi = clampF(x * P_INV_SP, 0, PNX - 1)
HashCoord(v, n) == clampF(v \div P_SPACING, 0, n - 1)

HashCell(p) == HashCoord(p.x, PNX) * PNY + HashCoord(p.y, PNY)

\* lines 173-178: the occupancy count
NumPartCell(ps) ==
  [c \in HashCells |-> Cardinality({i \in Pids : HashCell(ps[i]) = c})]

RECURSIVE PrefBefore(_, _)
PrefBefore(num, c) == IF c = 0 THEN 0 ELSE PrefBefore(num, c - 1) + num[c - 1]

\* lines 179-185: m_firstPart[i] = pref; pref += n  (pref before cell i's count)
PrefixSum(num) == [c \in 0 .. PNC |-> PrefBefore(num, c)]

\* lines 186-190: m_cellPartIds[--m_firstPart[cell]] = i, for i = from .. PC_MAX-1
RECURSIVE BucketFill(_, _, _, _, _)
BucketFill(from, ps, first, ids, wr) ==
  IF from = PC_MAX
    THEN [first |-> first, ids |-> ids, wr |-> wr]
    ELSE LET c == HashCell(ps[from])
             k == first[c] - 1
         IN  BucketFill(from + 1, ps, [first EXCEPT ![c] = k],
                        [ids EXCEPT ![k] = from], wr \cup {k})

\* m_cellPartIds[k] as the scan reads it
ReadId(ids, k, oob) == IF k < 0 /\ oob # KeepStored THEN oob ELSE ids[k]

\* 2 * PARTICLE_RADIUS and its square
DIAM == 2 * PARTICLE_RADIUS
min2 == DIAM * DIAM

\* lines 200-213: the neighbour j of particle i, in sweep it
VisitPair(st, it, i, j) ==
  IF j <= i
    THEN st
    ELSE LET a == st.ps[i]
             b == st.ps[j]
             dx == b.x - a.x
             dy == b.y - a.y
             d2 == dx * dx + dy * dy
         IN  IF d2 > min2 \/ d2 = 0
               THEN st
               ELSE LET d == ISqrt(d2)
                        \* dx *= s, with s = 0.5 * (2r - d) / d
                        mx == TruncDiv(dx * (DIAM - d), 2 * d)
                        my == TruncDiv(dy * (DIAM - d), 2 * d)
                    IN  [st EXCEPT
                           !.ps = [st.ps EXCEPT
                                     ![i] = [a EXCEPT !.x = a.x - mx, !.y = a.y - my],
                                     ![j] = [b EXCEPT !.x = b.x + mx, !.y = b.y + my]],
                           !.pairs = Append(st.pairs, << it, i, j, d2 >>)]

\* TRUE, once st has been evaluated: TLC passes an operator's arguments
\* unevaluated, and a loop that never looks at st would hand on an ever longer
\* chain of pending steps
Evaluated(st) == Len(st.pairs) >= 0

\* line 199: for (k = m_firstPart[cell]; k < m_firstPart[cell + 1]; ++k)
RECURSIVE ScanBucket(_, _, _, _, _, _, _)
ScanBucket(st, it, i, k, kEnd, ids, oob) ==
  IF k >= kEnd
    THEN st
    ELSE LET st2 == VisitPair([st EXCEPT !.rd = st.rd \cup {k}], it, i,
                              ReadId(ids, k, oob))
         IN  IF Evaluated(st2)
               THEN ScanBucket(st2, it, i, k + 1, kEnd, ids, oob)
               ELSE st2

\* lines 196-198: the hash cells around (cx, cy), in the order of the two loops
CellsAround(cx, cy) ==
  LET x0 == Max(cx - 1, 0)
      x1 == Min(cx + 1, PNX - 1)
      y0 == Max(cy - 1, 0)
      y1 == Min(cy + 1, PNY - 1)
      nx == Max(x1 - x0 + 1, 0)
      ny == Max(y1 - y0 + 1, 0)
  IN  [n \in 1 .. (nx * ny) |-> (x0 + ((n - 1) \div ny)) * PNY + y0 + ((n - 1) % ny)]

RECURSIVE ScanCells(_, _, _, _, _, _, _, _)
ScanCells(st, it, i, cs, n, first, ids, oob) ==
  IF n > Len(cs)
    THEN st
    ELSE LET st2 == ScanBucket(st, it, i, first[cs[n]], first[cs[n] + 1], ids, oob)
         IN  IF Evaluated(st2)
               THEN ScanCells(st2, it, i, cs, n + 1, first, ids, oob)
               ELSE st2

\* lines 193-216: particle i of sweep it; cx, cy are taken once, before the scan
ScanParticle(st, it, i, first, ids, oob) ==
  LET cx == TruncDiv(st.ps[i].x, P_SPACING)
      cy == TruncDiv(st.ps[i].y, P_SPACING)
  IN  ScanCells(st, it, i, CellsAround(cx, cy), 1, first, ids, oob)

\* lines 192-217: sweeps it .. iters-1, from particle i
RECURSIVE Sweeps(_, _, _, _, _, _, _)
Sweeps(st, it, i, iters, first, ids, oob) ==
  IF it >= iters
    THEN st
    ELSE IF i = PC_MAX
      THEN Sweeps(st, it + 1, 0, iters, first, ids, oob)
      ELSE LET st2 == ScanParticle(st, it, i, first, ids, oob)
           IN  IF Evaluated(st2)
                 THEN Sweeps(st2, it, i + 1, iters, first, ids, oob)
                 ELSE st2

\* lines 173-190: the rebuild of the spatial hash
RebuildHash(ps, ids) ==
  LET num == NumPartCell(ps)
      f == BucketFill(0, ps, PrefixSum(num), ids, {})
  IN  [num |-> num, first |-> f.first, ids |-> f.ids, wr |-> f.wr]

PushParticlesApart ==
  /\ pc = "push"
  /\ \E oob \in OobValues :
       \E h \in {RebuildHash(m_particles, m_cellPartIds)} :
         \E st \in {Sweeps([ps |-> m_particles, rd |-> {}, pairs |-> << >>], 0, 0,
                           SEPARATE_ITERS_P, h.first, h.ids, oob)} :
           /\ m_numPartCell' = h.num
           /\ m_firstPart' = h.first
           /\ m_cellPartIds' = h.ids
           /\ m_particles' = st.ps
           /\ hashLog' = [cellOf |-> [i \in Pids |-> HashCell(m_particles[i])],
                          wr |-> h.wr, rd |-> st.rd, pairs |-> st.pairs]
  /\ pc' = "toGrid"
  /\ UNCHANGED << frames, dt, m_imu, sensor, m_ax, m_ay, m_cellType, gridVars,
                  fluidVars, sampleLog, preSolve >>

(* ------------------------------------------------------------------ *)
(* transferVelocities                                                  *)
(* ------------------------------------------------------------------ *)
\* What a read of a grid array at an index outside 0 .. GC-1 may return
OobGrid == {0, SCALE}

\* lines 233-234 and 240-247: the four samples around particle pr, for component comp
\* (0: m_u, 1: m_v), and their weights
Samples(pr, comp) ==
  LET dx == IF comp = 1 THEN CELL \div 2 ELSE 0
      dy == IF comp = 1 THEN 0 ELSE CELL \div 2
      \* fx = (pr.x - dx) * hInv, hInv = GS
      fx == (pr.x - dx) * GS
      fy == (pr.y - dy) * GS
      x0 == fx \div SCALE
      y0 == fy \div SCALE
      tx == fx - x0 * SCALE
      ty == fy - y0 * SCALE
      sx == SCALE - tx
      sy == SCALE - ty
      x1 == IF x0 + 1 < GS THEN x0 + 1 ELSE GS - 1
      y1 == IF y0 + 1 < GS THEN y0 + 1 ELSE GS - 1
  IN  [x0 |-> x0, x1 |-> x1, y0 |-> y0, y1 |-> y1,
       w |-> << (sx * sy) \div SCALE, (tx * sy) \div SCALE,
                (tx * ty) \div SCALE, (sx * ty) \div SCALE >>,
       n |-> << idx(x0, y0), idx(x1, y0), idx(x1, y1), idx(x0, y1) >>]

\* f[n] += val; a store outside the array does not reach it
AddAt(f, n, val) == IF n \in Cells THEN [f EXCEPT ![n] = @ + val] ELSE f

\* f[n]; a load outside the array returns g
At(f, n, g) == IF n \in Cells THEN f[n] ELSE g

\* lines 250-258: one particle's deposit on its four samples, in the order n0 .. n3
RECURSIVE DepositOne(_, _, _, _, _)
DepositOne(fd, s, pv, k, last) ==
  IF k > last
    THEN fd
    ELSE DepositOne([f |-> AddAt(fd.f, s.n[k], TruncDiv(pv * s.w[k], SCALE)),
                     dw |-> AddAt(fd.dw, s.n[k], s.w[k])],
                    s, pv, k + 1, last)

\* lines 238-258: the deposit of particles p .. PC_MAX-1
RECURSIVE Deposit(_, _, _, _)
Deposit(fd, ps, comp, p) ==
  IF p = PC_MAX
    THEN fd
    ELSE Deposit(DepositOne(fd, Samples(ps[p], comp),
                            IF comp = 1 THEN ps[p].vy ELSE ps[p].vx, 1, 4),
                 ps, comp, p + 1)

\* lines 232-275 with toGrid: one component's grid field
ToGridField(ps, comp) ==
  LET fd == Deposit([f |-> [i \in Cells |-> 0], dw |-> [i \in Cells |-> 0]], ps, comp, 0)
  IN  [f |-> [i \in Cells |-> IF fd.dw[i] > 0
                                THEN TruncDiv(fd.f[i] * SCALE, fd.dw[i])
                                ELSE fd.f[i]],
       dw |-> fd.dw]

\* the coordinates transferVelocities computes, over both components and all particles
SampleCoords(ps) ==
  UNION {{Samples(ps[p], comp).x0, Samples(ps[p], comp).x1,
          Samples(ps[p], comp).y0, Samples(ps[p], comp).y1} :
           p \in Pids, comp \in {0, 1}}

SampleIndices(ps) ==
  UNION {{Samples(ps[p], comp).n[k] : k \in 1 .. 4} : p \in Pids, comp \in {0, 1}}

\* line 73, transferVelocities(true, 0.0f)
TransferToGrid ==
  /\ pc = "toGrid"
  /\ \E U \in {ToGridField(m_particles, 0)}, V \in {ToGridField(m_particles, 1)} :
         /\ m_prevU' = m_u
         /\ m_prevV' = m_v
         /\ m_u' = U.f
         /\ m_du' = U.dw
         /\ m_v' = V.f
         /\ m_dv' = V.dw
  /\ sampleLog' = SampleCoords(m_particles)
  /\ pc' = "solve"
  /\ UNCHANGED << frames, dt, m_imu, sensor, m_ax, m_ay, m_particles, m_cellType,
                  m_pressure, hashVars, fluidVars, preSolve >>

\* lines 260-264: the particle's new velocity component
Blend(s, f, fp, pv, flipRatio, g) ==
  LET f1 == At(f, s.n[1], g)
      f2 == At(f, s.n[2], g)
      f3 == At(f, s.n[3], g)
      f4 == At(f, s.n[4], g)
      pic == TruncDiv(s.w[1] * f1 + s.w[2] * f2 + s.w[3] * f3 + s.w[4] * f4, SCALE)
      corr == TruncDiv(s.w[1] * (f1 - At(fp, s.n[1], g)) + s.w[2] * (f2 - At(fp, s.n[2], g))
                         + s.w[3] * (f3 - At(fp, s.n[3], g))
                         + s.w[4] * (f4 - At(fp, s.n[4], g)), SCALE)
      flip == pv + corr
  IN  TruncDiv((SCALE - flipRatio) * pic + flipRatio * flip, SCALE)

\* line 81, transferVelocities(false, FLIP_RATIO)
TransferToParticles ==
  /\ pc = "toPart"
  /\ \E g \in (IF SampleIndices(m_particles) \subseteq Cells THEN {0} ELSE OobGrid) :
       m_particles' =
         [p \in Pids |->
            [m_particles[p] EXCEPT
               !.vx = Blend(Samples(m_particles[p], 0), m_u, m_prevU, @, FLIP_RATIO, g),
               !.vy = Blend(Samples(m_particles[p], 1), m_v, m_prevV, @, FLIP_RATIO, g)]]
  /\ sampleLog' = SampleCoords(m_particles)
  /\ pc' = "stat"
  /\ UNCHANGED << frames, dt, m_imu, sensor, m_ax, m_ay, m_cellType, gridVars,
                  hashVars, fluidVars, preSolve >>

(* ------------------------------------------------------------------ *)
(* solveIncompressibility                                              *)
(* ------------------------------------------------------------------ *)
\* lines 284-295: the cell (gx, gy) of one sweep
SolveCell(g, gx, gy, d) ==
  LET c == idx(gx, gy)
      r == idx(gx + 1, gy)
      t == idx(gx, gy + 1)
  IN  IF m_cellType[c] # FLUID_CELL
        THEN g
        ELSE LET div == g.u[r] - g.u[c] + g.v[t] - g.v[c]
                 \* p = -div / 4 * 1.9
                 p == TruncDiv(-div * 19, 40)
                 u1 == [g.u EXCEPT ![c] = @ - p]
                 v1 == [g.v EXCEPT ![c] = @ - p]
             IN  [u |-> [u1 EXCEPT ![r] = @ + p],
                  v |-> [v1 EXCEPT ![t] = @ + p],
                  \* cp * p, cp = FLUID_DENSITY * CELL / dt
                  p |-> [g.p EXCEPT ![c] = @ + TruncDiv(FLUID_DENSITY * CELL * p, d)]]

\* lines 281-297: sweeps k .. iters-1, from the cell (gx, gy)
RECURSIVE SolveFrom(_, _, _, _, _, _)
SolveFrom(g, k, gx, gy, iters, d) ==
  IF k >= iters
    THEN g
    ELSE IF gx >= GS - 1
      THEN SolveFrom(g, k + 1, 1, 1, iters, d)
      ELSE IF gy >= GS - 1
        THEN SolveFrom(g, k, gx + 1, 1, iters, d)
        ELSE SolveFrom(SolveCell(g, gx, gy, d), k, gx, gy + 1, iters, d)

SolveIncompressibility ==
  /\ pc = "solve"
  /\ \E g \in {SolveFrom([u |-> m_u, v |-> m_v, p |-> m_pressure], 0, 1, 1,
                          SOLVER_ITERS_P, dt)} :
         /\ m_u' = g.u
         /\ m_v' = g.v
         /\ m_pressure' = g.p
  /\ preSolve' = [u |-> m_u, v |-> m_v, p |-> m_pressure]
  /\ pc' = "toPart"
  /\ UNCHANGED << frames, dt, m_imu, sensor, m_ax, m_ay, m_particles, m_cellType,
                  m_prevU, m_prevV, m_du, m_dv, hashVars, fluidVars, sampleLog >>

(* ------------------------------------------------------------------ *)
(* updateFluidCells                                                    *)
(* ------------------------------------------------------------------ *)
\* lines 322-325: int((px -+ r) * GS) clamped to the grid
SplatCoord(v) == clampF(TruncDiv(v * GS, SCALE), 0, GS - 1)

\* lines 322-335: particle pr is counted in cell (gx, gy)
Covers(pr, gx, gy) ==
  LET cx == ((2 * gx + 1) * CELL) \div 2
      cy == ((2 * gy + 1) * CELL) \div 2
      dx == cx - pr.x
      dy == cy - pr.y
  IN  /\ SplatCoord(pr.x - PARTICLE_RADIUS) <= gx
      /\ gx <= SplatCoord(pr.x + PARTICLE_RADIUS)
      /\ SplatCoord(pr.y - PARTICLE_RADIUS) <= gy
      /\ gy <= SplatCoord(pr.y + PARTICLE_RADIUS)
      /\ ~(dx * dx + dy * dy > PARTICLE_RADIUS * PARTICLE_RADIUS)

Speed(pr) == ISqrt(pr.vx * pr.vx + pr.vy * pr.vy)

\* lines 316-341: what the particles p .. PC_MAX-1 add to cnt[id] and acc[id]
RECURSIVE SplatFrom(_, _, _, _)
SplatFrom(ps, gx, gy, p) ==
  IF p = PC_MAX
    THEN [cnt |-> 0, acc |-> 0]
    ELSE LET rest == SplatFrom(ps, gx, gy, p + 1)
         IN  IF Covers(ps[p], gx, gy)
               THEN [cnt |-> rest.cnt + 1, acc |-> rest.acc + Speed(ps[p])]
               ELSE rest

\* a faulty splat: the static arrays are not cleared (no memset, lines 309-310)
SplatKeeping(ps, cnt0, acc0) ==
  [id \in Cells |->
     LET s == SplatFrom(ps, id \div GS, id % GS, 0)
     IN  [cnt |-> cnt0[id] + s.cnt, acc |-> acc0[id] + s.acc]]

\* lines 307-341: the static cnt[] and acc[] (cnt0, acc0 before the call) are
\* cleared, then every particle is counted
Splat(ps, cnt0, acc0) ==
  [id \in Cells |-> SplatFrom(ps, id \div GS, id % GS, 0)]

\* lines 344-354: the base classification of a cell
BaseClass(n, a) ==
  LET v == IF n # 0 THEN TruncDiv(a, n) ELSE 0
  IN  IF n >= FLUID_PARTICLE_THRESHOLD
        THEN (IF v > FOAM_SPEED_THRESHOLD THEN FLUID_FOAM ELSE FLUID_LIQUID)
        ELSE IF n >= FLUID_RIM_PARTICLE_THRESHOLD
          THEN FLUID_RIM_TRANSPARENT
          ELSE FLUID_EMPTY

\* lines 362-365
neighborFilled(conv, id) ==
  conv[id] \in {FLUID_RIM_TRANSPARENT, FLUID_LIQUID, FLUID_FOAM}

\* lines 373-385: the two loops over dx, dy in -1 .. 1, each running while touch
\* is 0; n counts the (dx, dy) pairs passed
RECURSIVE Touch(_, _, _, _, _)
Touch(conv, gx, gy, n, touch) ==
  IF n = 9 \/ touch # 0
    THEN touch
    ELSE LET dx == (n \div 3) - 1
             dy == (n % 3) - 1
             nx == gx + dx
             ny == gy + dy
             skip == \/ (dx = 0 /\ dy = 0)
                     \/ (dx # 0 /\ dy # 0)
                     \/ nx < 0 \/ nx >= GS \/ ny < 0 \/ ny >= GS
         IN  Touch(conv, gx, gy, n + 1,
                   IF ~skip /\ neighborFilled(conv, idx(nx, ny)) THEN touch + 1 ELSE touch)

\* lines 367-395: the convolution, read from conv and written to convTmp
Convolve(conv) ==
  [id \in Cells |->
     IF conv[id] # FLUID_EMPTY
       THEN conv[id]
       ELSE LET touch == Touch(conv, id \div GS, id % GS, 0, 0)
            IN  IF touch >= 4 THEN FLUID_LIQUID
                ELSE IF touch >= 2 THEN FLUID_RIM_TRANSPARENT
                ELSE IF touch >= 1 THEN FLUID_RIM_LIGHT
                ELSE conv[id]]

\* lines 400-404 from cell i, the count so far being n
RECURSIVE ChangeListFrom(_, _, _, _, _)
ChangeListFrom(prev, curr, list, n, i) ==
  IF i = GC
    THEN [idx |-> list, cnt |-> n]
    ELSE IF curr[i] # prev[i]
      THEN ChangeListFrom(prev, curr,
                          IF n \in Cells THEN [list EXCEPT ![n] = i] ELSE list,
                          n + 1, i + 1)
      ELSE ChangeListFrom(prev, curr, list, n, i + 1)

\* lines 399-404: m_changedCnt = 0, then the list of the cells that differ
ChangeList(prev, curr, oldIdx) ==
  ChangeListFrom(prev, curr, oldIdx, 0, 0)

\* lines 302-405
FluidCellsUpdate ==
  \E sp \in {Splat(m_particles, cnt, acc)} :
    \E base \in {[id \in Cells |-> BaseClass(sp[id].cnt, sp[id].acc)]} :
      \E curr \in {Convolve(base)} :
        \E ch \in {ChangeList(m_currFluid, curr, m_changedIdx)} :
          /\ cnt' = [id \in Cells |-> sp[id].cnt]
          /\ acc' = [id \in Cells |-> sp[id].acc]
          /\ convTmp' = curr
          /\ m_prevFluid' = m_currFluid
          /\ m_currFluid' = curr
          /\ m_changedIdx' = ch.idx
          /\ m_changedCnt' = ch.cnt
          /\ baseFluid' = base
          /\ calls' = calls + 1

\* line 85: the last phase of simulate
UpdateFluidCells ==
  /\ pc = "stat"
  /\ FluidCellsUpdate
  /\ pc' = "imu"
  /\ frames' = frames + 1
  /\ UNCHANGED << dt, m_imu, sensor, m_ax, m_ay, m_particles, m_cellType, gridVars,
                  hashVars, sampleLog, preSolve >>

\* updateFluidCells called again, the particles being as the last call left them
MaxCalls == 3

UpdateFluidCellsAgain ==
  /\ pc = "imu"
  /\ calls >= 1
  /\ calls < MaxCalls
  /\ FluidCellsUpdate
  /\ UNCHANGED << pc, frames, dt, m_imu, sensor, m_ax, m_ay, m_particles, m_cellType,
                  gridVars, hashVars, sampleLog, preSolve >>

(* ------------------------------------------------------------------ *)
(* The state after begin(), and simulate                               *)
(* ------------------------------------------------------------------ *)
\* seedParticles: x = random(20, 80) / 100, vx = random(-50, 50) / 100 * CELL
Seed(kx, ky, kvx, kvy) ==
  Particle((kx * SCALE) \div 100, (ky * SCALE) \div 100,
           TruncDiv(kvx * CELL, 100), TruncDiv(kvy * CELL, 100))

\* the draws of random() the runs of Spec start from
SeedDraws == {<< 50, 30, 0, 0 >>, << 50, 36, 0, 0 >>, << 40, 40, 20, -20 >>}

Seeds == {Seed(s[1], s[2], s[3], s[4]) : s \in SeedDraws}

NoRead == [ok |-> FALSE, ax |-> 0, ay |-> 0]
NoHashLog == [cellOf |-> [i \in Pids |-> 0], wr |-> {}, rd |-> {}, pairs |-> << >>]
NoGrid == [u |-> Zeros, v |-> Zeros, p |-> Zeros]
FreshIds == [k \in IdsDom |-> 0]
AllEmpty == [i \in Cells |-> FLUID_EMPTY]

\* everything begin() leaves as the object was created: zero
Rest ==
  /\ frames = 0
  /\ sensor = NoRead
  /\ m_cellType = initGrid
  /\ m_numPartCell = [c \in HashCells |-> 0]
  /\ m_firstPart = [c \in 0 .. PNC |-> 0]
  /\ m_u = Zeros /\ m_v = Zeros /\ m_prevU = Zeros /\ m_prevV = Zeros
  /\ m_du = Zeros /\ m_dv = Zeros /\ m_pressure = Zeros
  /\ m_currFluid = AllEmpty
  /\ m_prevFluid = AllEmpty
  /\ m_changedIdx = Zeros
  /\ m_changedCnt = 0
  /\ cnt = Zeros
  /\ acc = Zeros
  /\ convTmp = AllEmpty
  /\ hashLog = NoHashLog
  /\ sampleLog = {}
  /\ preSolve = NoGrid
  /\ baseFluid = AllEmpty
  /\ calls = 0

Init ==
  /\ pc = "imu"
  /\ dt = 0
  /\ m_ax = 0
  /\ m_ay = 0
  /\ m_imu \in BOOLEAN
  /\ m_particles \in [Pids -> Seeds]
  /\ m_cellPartIds = FreshIds
  /\ Rest

Next ==
  \/ UpdateIMU
  \/ IntegrateParticles
  \/ PushParticlesApart
  \/ TransferToGrid
  \/ SolveIncompressibility
  \/ TransferToParticles
  \/ UpdateFluidCells

Spec == Init /\ [][Next]_vars

(* ------------------------------------------------------------------ *)
(* integrateParticles alone, over a wider range of arguments           *)
(* ------------------------------------------------------------------ *)
\* dt in ms; the acceleration components; the particles' places and velocities,
\* in the container, at its wall, in the corners of the box and beyond it
DtWide == {16, 100, 1000}
AccWide == {-20000, 0, 9810}
IntegPoints ==
  {Particle(500, 500, 0, 0), Particle(600, 420, 3000, -1500),
   Particle(380, 610, -40000, 25000), Particle(900, 100, 700, 700),
   Particle(-50, 1040, 0, -90000)}

InitInteg ==
  /\ pc = "integ"
  /\ dt \in DtWide
  /\ m_ax \in AccWide
  /\ m_ay \in AccWide
  /\ m_imu = FALSE
  /\ \E a \in IntegPoints, b \in IntegPoints :
       m_particles = [i \in Pids |-> IF i % 2 = 0 THEN a ELSE b]
  /\ m_cellPartIds = FreshIds
  /\ Rest

SpecInteg == InitInteg /\ [][IntegrateParticles]_vars

(* ------------------------------------------------------------------ *)
(* pushParticlesApart alone, over placements in the container          *)
(* ------------------------------------------------------------------ *)
PushPoints ==
  {Particle(500, 500, 0, 0), Particle(500, 350, 0, 0), Particle(500, 360, 0, 0),
   Particle(410, 590, 0, 0), Particle(590, 420, 0, 0)}

\* a placement of an earlier frame, two particles in each of two hash cells
EarlierPlacement ==
  [i \in Pids |-> IF 2 * i < PC_MAX THEN Particle(500, 500, 0, 0)
                                      ELSE Particle(500, 350, 0, 0)]

\* m_cellPartIds is as begin() left it, or as the call of an earlier frame did
InitPush ==
  /\ pc = "push"
  /\ dt = 100
  /\ m_ax = 0
  /\ m_ay = 0
  /\ m_imu = FALSE
  /\ m_particles \in [Pids -> PushPoints]
  /\ m_cellPartIds \in {FreshIds, RebuildHash(EarlierPlacement, FreshIds).ids}
  /\ Rest

SpecPush == InitPush /\ [][PushParticlesApart]_vars

(* ------------------------------------------------------------------ *)
(* updateFluidCells, called once and again on the same particles       *)
(* ------------------------------------------------------------------ *)
FluidPoints ==
  {Particle(400, 400, 0, 0), Particle(600, 600, 300, 400), Particle(400, 600, 0, 0),
   Particle(500, 500, 0, 0), Particle(600, 400, 3000, 4000)}

InitFluid ==
  /\ pc = "stat"
  /\ dt = 100
  /\ m_ax = 0
  /\ m_ay = 0
  /\ m_imu = FALSE
  /\ m_particles \in [Pids -> FluidPoints]
  /\ m_cellPartIds = FreshIds
  /\ Rest

NextFluid == UpdateFluidCells \/ UpdateFluidCellsAgain

SpecFluid == InitFluid /\ [][NextFluid]_vars

(* ------------------------------------------------------------------ *)
(* Properties                                                          *)
(* ------------------------------------------------------------------ *)
\* C1: when integrateParticles has returned, every particle is within R of the
\* container's centre, up to the rounding of the projection (4 units of 1/SCALE),
\* and within [PARTICLE_RADIUS, 1 - PARTICLE_RADIUS] on both axes.
C1_Contained ==
  pc = "push" =>
    \A i \in Pids :
      LET p == m_particles[i]
          dx == p.x - CX
          dy == p.y - CY
          reach == R + (SCALE \div 250)
      IN  /\ dx * dx + dy * dy <= reach * reach
          /\ PARTICLE_RADIUS <= p.x /\ p.x <= SCALE - PARTICLE_RADIUS
          /\ PARTICLE_RADIUS <= p.y /\ p.y <= SCALE - PARTICLE_RADIUS

\* C1, witness: integrateParticles has returned and has put a particle that was
\* moving outward on the container's wall, its velocity reflected.
C1_Projected ==
  /\ pc = "push"
  /\ \E i \in Pids :
       LET p == m_particles[i]
           dx == p.x - CX
           dy == p.y - CY
           inner == R - (SCALE \div 250)
       IN  /\ dx * dx + dy * dy >= inner * inner
           /\ p.vx * dx + p.vy * dy < 0

\* C2: when transferVelocities(false, flipRatio) runs, m_prevU and m_prevV are the
\* grid velocities solveIncompressibility found in this same step.
C2_PrevIsPreSolve ==
  pc = "toPart" => (m_prevU = preSolve.u /\ m_prevV = preSolve.v)

\* C3: a cell that the base classification leaves EMPTY and that has k in-grid
\* orthogonal neighbours classified RIM_TRANSPARENT, LIQUID or FOAM before the
\* convolution ends updateFluidCells as LIQUID when k >= 4, RIM_TRANSPARENT when
\* 2 <= k <= 3, RIM_LIGHT when k = 1, EMPTY when k = 0.
C3_ConvolutionByCount ==
  calls >= 1 =>
    \A gx \in 0 .. (GS - 1), gy \in 0 .. (GS - 1) :
      LET k == Cardinality(
                 {d \in {<< -1, 0 >>, << 1, 0 >>, << 0, -1 >>, << 0, 1 >>} :
                    /\ gx + d[1] \in 0 .. (GS - 1)
                    /\ gy + d[2] \in 0 .. (GS - 1)
                    /\ baseFluid[idx(gx + d[1], gy + d[2])]
                         \in {FLUID_RIM_TRANSPARENT, FLUID_LIQUID, FLUID_FOAM}})
      IN  baseFluid[idx(gx, gy)] = FLUID_EMPTY =>
            m_currFluid[idx(gx, gy)] =
              IF k >= 4 THEN FLUID_LIQUID
              ELSE IF k >= 2 THEN FLUID_RIM_TRANSPARENT
              ELSE IF k = 1 THEN FLUID_RIM_LIGHT
              ELSE FLUID_EMPTY

\* C4: solveIncompressibility leaves the pressure and both velocity samples at
\* the index of every SOLID cell as it found them.
C4_SolidUntouched ==
  pc = "toPart" =>
    \A i \in Cells :
      m_cellType[i] = SOLID_CELL =>
        /\ m_u[i] = preSolve.u[i]
        /\ m_v[i] = preSolve.v[i]
        /\ m_pressure[i] = preSolve.p[i]

\* C5: updateIMU sets (m_ax, m_ay) to (ay * 10 * GRAVITY_MODIFIER,
\* -ax * 10 * GRAVITY_MODIFIER) when a sensor is attached and its read succeeds,
\* and leaves the vector as it was when the read fails or no sensor is attached;
\* either way simulate goes on to integrateParticles, and every phase of the
\* step leads to the next one.
C5_ImuRetains ==
  [][/\ (pc = "imu") =>
          (/\ pc' = "integ"
           /\ IF m_imu /\ sensor'.ok
                THEN /\ m_ax' = sensor'.ay * 10 * GRAVITY_MODIFIER
                     /\ m_ay' = -sensor'.ax * 10 * GRAVITY_MODIFIER
                ELSE /\ m_ax' = m_ax
                     /\ m_ay' = m_ay)
     /\ (pc = "integ") => (pc' = "push")
     /\ (pc = "push") => (pc' = "toGrid")
     /\ (pc = "toGrid") => (pc' = "solve")
     /\ (pc = "solve") => (pc' = "toPart")
     /\ (pc = "toPart") => (pc' = "stat")
     /\ (pc = "stat") => (pc' = "imu" /\ frames' = frames + 1)]_vars

\* C5, witness: a read has failed after one that succeeded, and the vector of
\* the successful read is still there when integrateParticles is about to run.
C5_FailedReadKept ==
  /\ pc = "integ"
  /\ m_imu
  /\ ~sensor.ok
  /\ m_ax # 0
  /\ m_ay # 0

\* C6: updateFluidCells, called again on unchanged particles, leaves m_currFluid
\* as the call before left it and produces the same change list (m_changedIdx,
\* m_changedCnt) as the call before.
C6_SameChangeList ==
  [][(calls >= 1 /\ calls' = calls + 1) =>
       /\ m_currFluid' = m_currFluid
       /\ m_changedCnt' = m_changedCnt
       /\ m_changedIdx' = m_changedIdx]_vars

\* C6 as amended: updateFluidCells, called again on unchanged particles, leaves
\* m_currFluid as the call before left it; its change list is empty, no cell
\* differing from the state the call before left.
C6_SameCellsEmptyList ==
  [][(calls >= 1 /\ calls' = calls + 1) =>
       /\ m_currFluid' = m_currFluid
       /\ m_changedCnt' = 0
       /\ m_changedIdx' = m_changedIdx]_vars

\* C6, witness: updateFluidCells has been called a second time on particles that
\* fill some cell; the first call listed changes, the second lists none.
C6_SecondCall ==
  /\ calls = 2
  /\ m_currFluid # AllEmpty
  /\ m_prevFluid = m_currFluid
  /\ m_changedCnt = 0
  /\ m_changedIdx # Zeros

\* C7: after the rebuild of the spatial hash, the entries m_cellPartIds[k] with
\* m_firstPart[c] <= k < m_firstPart[c + 1] are exactly the particles whose hash
\* cell is c, each once, for every hash cell c.
C7_BucketsExact ==
  pc = "toGrid" =>
    \A c \in HashCells :
      LET ks == {k \in IdsDom : m_firstPart[c] <= k /\ k < m_firstPart[c + 1]}
          members == {i \in Pids : hashLog.cellOf[i] = c}
      IN  /\ {m_cellPartIds[k] : k \in ks} = members
          /\ Cardinality(ks) = Cardinality(members)

\* C8: within one sweep of pushParticlesApart a pair of particles is corrected at
\* most once, the neighbour's index being greater than the scanned particle's,
\* and a pair at distance 0 is never corrected.
C8_PairsOnce ==
  pc = "toGrid" =>
    LET log == hashLog.pairs
    IN  /\ \A m \in 1 .. Len(log) : log[m][3] > log[m][2] /\ log[m][4] # 0
        /\ \A m \in 1 .. Len(log), n \in 1 .. Len(log) :
             (m # n) => << log[m][1], log[m][2], log[m][3] >>
                          # << log[n][1], log[n][2], log[n][3] >>

\* C9: every index at which pushParticlesApart writes or reads m_cellPartIds is
\* in 0 .. m_numParticles - 1.
C9_IdsIndicesInRange ==
  pc = "toGrid" => (hashLog.wr \cup hashLog.rd) \subseteq 0 .. (PC_MAX - 1)

\* C10: the sample coordinates x0, x1, y0, y1 that transferVelocities computes,
\* to the grid and to the particles, are in 0 .. GS-1.
C10_SamplesInGrid ==
  sampleLog \subseteq 0 .. (GS - 1)

=============================================================================
